---- MODULE Spec2Model ----
(***************************************************************************)
(* Bravix financial-indicator engine (backend/app/utils/                   *)
(* financial_indicators.py) and the endpoint that calls it                 *)
(* (backend/app/routes/financial_analysis.py), as a state machine.         *)
(*                                                                         *)
(* Python floats are modelled as decimal numbers m * 10^e with an integer  *)
(* mantissa, kept in canonical form (no trailing zero in m, zero is 0e0).  *)
(* round(x, n) is round-half-to-even on the decimal value. A binary float  *)
(* can sit on either side of a decimal tie that it cannot represent; with  *)
(* the inputs and bounds below no quotient lands on such a tie.            *)
(***************************************************************************)
EXTENDS Integers, Sequences, FiniteSets, TLC

VARIABLES data, received, reports, response, pc, score_a, score_b, class_a, class_b, call,
          tmp, clients, completed

vars == <<data, received, reports, response, pc, score_a, score_b, class_a, class_b, call,
          tmp, clients, completed>>

(***************************************************************************)
(* Python values held by a dict or returned in a report.                   *)
(***************************************************************************)
RECURSIVE Pow10(_)
Pow10(n) == IF n <= 0 THEN 1 ELSE 10 * Pow10(n - 1)

Abs(n) == IF n < 0 THEN 0 - n ELSE n

RECURSIVE Canon(_, _)
Canon(m, e) ==
    IF m = 0 THEN [t |-> "num", m |-> 0, e |-> 0, s |-> <<>>]
    ELSE IF m % 10 = 0 THEN Canon(m \div 10, e + 1)
    ELSE [t |-> "num", m |-> m, e |-> e, s |-> <<>>]

Num(n) == Canon(n, 0)

None == [t |-> "none", m |-> 0, e |-> 0, s |-> <<>>]

Str(chars) == [t |-> "str", m |-> 0, e |-> 0, s |-> chars]

\* A key that the dict does not hold.
Absent == [t |-> "absent", m |-> 0, e |-> 0, s |-> <<>>]

\* Stands for the result of an expression that raised an exception.
Raise == [t |-> "raise", m |-> 0, e |-> 0, s |-> <<>>]

IsNum(v) == v.t = "num"

\* ---------- float arithmetic on decimals ----------

MinE(a, b) == IF a.e < b.e THEN a.e ELSE b.e

Add(a, b) == Canon(a.m * Pow10(a.e - MinE(a, b)) + b.m * Pow10(b.e - MinE(a, b)), MinE(a, b))

Sub(a, b) == Canon(a.m * Pow10(a.e - MinE(a, b)) - b.m * Pow10(b.e - MinE(a, b)), MinE(a, b))

Mul(a, b) == Canon(a.m * b.m, a.e + b.e)

RECURSIVE NumDigits(_)
NumDigits(n) == IF Abs(n) < 10 THEN 1 ELSE 1 + NumDigits(Abs(n) \div 10)

\* position of the leading digit of a non-zero decimal
Order(a) == NumDigits(a.m) + a.e

\* -1, 0, 1 as a < b, a = b, a > b: by sign, then by magnitude
Cmp(a, b) ==
    LET sa == IF a.m < 0 THEN 0 - 1 ELSE IF a.m = 0 THEN 0 ELSE 1
        sb == IF b.m < 0 THEN 0 - 1 ELSE IF b.m = 0 THEN 0 ELSE 1
        ma == Abs(a.m) * Pow10(a.e - MinE(a, b))
        mb == Abs(b.m) * Pow10(b.e - MinE(a, b))
    IN IF sa # sb THEN (IF sa < sb THEN 0 - 1 ELSE 1)
       ELSE IF sa = 0 THEN 0
       ELSE IF Order(a) # Order(b) THEN (IF Order(a) < Order(b) THEN 0 - sa ELSE sa)
       ELSE IF ma = mb THEN 0
       ELSE IF ma < mb THEN 0 - sa ELSE sa

Lt(a, b) == Cmp(a, b) < 0

Le(a, b) == Cmp(a, b) <= 0

Gt(a, b) == Cmp(a, b) > 0

Ge(a, b) == Cmp(a, b) >= 0

\* the nearest integer to q + r / d (0 <= r < d), ties to even: Python's round()
RoundQR(q, r, d) ==
    IF (2 * r > d) \/ (2 * r = d /\ q % 2 = 1) THEN q + 1 ELSE q

\* n / d (d > 0) rounded to the nearest integer
RoundHalfEven(n, d) ==
    LET mag == RoundQR(Abs(n) \div d, Abs(n) % d, d)
    IN IF n < 0 THEN 0 - mag ELSE mag

\* up to k more decimal digits of the quotient q rem r of a division by d:
\* <<quotient, remainder, digits not taken because the division ended>>
RECURSIVE LongDiv(_, _, _, _)
LongDiv(q, r, d, k) ==
    IF k <= 0 \/ r = 0 THEN <<q, r, IF k < 0 THEN 0 ELSE k>>
    ELSE LongDiv(10 * q + (10 * r) \div d, (10 * r) % d, d, k - 1)

\* round(a / b, nd) for b # 0
DivRound(a, b, nd) ==
    LET k == a.e - b.e + nd
        sn == Abs(a.m)
        sd == Abs(b.m)
        neg == (a.m < 0) # (b.m < 0)
        qr == LongDiv(sn \div sd, sn % sd, sd, k)
        mag == IF k >= 0 THEN RoundQR(qr[1], qr[2], sd)
               ELSE IF NumDigits(sn) + 1 < NumDigits(sd) - k THEN 0
               ELSE RoundHalfEven(sn, sd * Pow10(0 - k))
    IN Canon(IF neg THEN 0 - mag ELSE mag, (IF k >= 0 THEN qr[3] ELSE 0) - nd)

\* round(x, nd)
Round(x, nd) ==
    IF x.e >= 0 - nd THEN x
    ELSE Canon(RoundHalfEven(x.m, Pow10(0 - nd - x.e)), 0 - nd)

\* a * b, a + b, round(x, nd) on Python values: TypeError unless floats
PyMul(a, b) == IF IsNum(a) /\ IsNum(b) THEN Mul(a, b) ELSE Raise

PyAdd(a, b) == IF IsNum(a) /\ IsNum(b) THEN Add(a, b) ELSE Raise

PyRound(x, nd) == IF IsNum(x) THEN Round(x, nd) ELSE Raise

\* ---------- Utility ----------

Digits == <<"0", "1", "2", "3", "4", "5", "6", "7", "8", "9">>

IsDigit(c) == \E i \in 1..10 : Digits[i] = c

DigitVal(c) == (CHOOSE i \in 1..10 : Digits[i] = c) - 1

RECURSIVE DigitsVal(_)
DigitsVal(cs) ==
    IF cs = <<>> THEN 0
    ELSE 10 * DigitsVal(SubSeq(cs, 1, Len(cs) - 1)) + DigitVal(cs[Len(cs)])

\* str.replace(",", "")
RemoveCommas(cs) == SelectSeq(cs, LAMBDA c : c # ",")

\* str.strip()
RECURSIVE Strip(_)
Strip(cs) ==
    IF cs = <<>> THEN cs
    ELSE IF cs[1] = " " THEN Strip(Tail(cs))
    ELSE IF cs[Len(cs)] = " " THEN Strip(SubSeq(cs, 1, Len(cs) - 1))
    ELSE cs

\* float(text) for plain decimal notation [sign] digits [. digits]; None stands
\* for the ValueError that float() raises on anything else.
ParseFloat(cs) ==
    LET neg == cs # <<>> /\ cs[1] = "-"
        body == IF cs # <<>> /\ cs[1] \in {"-", "+"} THEN Tail(cs) ELSE cs
        dots == {i \in 1..Len(body) : body[i] = "."}
        dot == IF dots = {} THEN Len(body) + 1 ELSE CHOOSE i \in dots : TRUE
        ip == SubSeq(body, 1, dot - 1)
        fp == SubSeq(body, dot + 1, Len(body))
        ok == /\ Cardinality(dots) <= 1
              /\ Len(ip) + Len(fp) > 0
              /\ \A i \in 1..Len(ip) : IsDigit(ip[i])
              /\ \A i \in 1..Len(fp) : IsDigit(fp[i])
        mag == DigitsVal(ip) * Pow10(Len(fp)) + DigitsVal(fp)
    IN IF ~ok THEN None
       ELSE Canon(IF neg THEN 0 - mag ELSE mag, 0 - Len(fp))

\* x in [None, "", "NaN", "null"]
IsBlank(x) ==
    \/ x.t = "none"
    \/ x.t = "str" /\ x.s \in {<<>>, <<"N", "a", "N">>, <<"n", "u", "l", "l">>}

\* A float goes through str() and float() unchanged (repr round-trips);
\* a key that is not in the dict reaches safe_num as None, through dict.get.
safe_num(x) ==
    IF x.t = "absent" \/ IsBlank(x) THEN Num(0)
    ELSE IF x.t = "num" THEN x
    ELSE LET f == ParseFloat(Strip(RemoveCommas(x.s)))
         IN IF f = None THEN Num(0) ELSE f

\* safe_div that answers 0.0 for a zero denominator
safe_div_zero(a, b) ==
    IF safe_num(b).m = 0 THEN Num(0) ELSE DivRound(safe_num(a), safe_num(b), 4)

safe_div(a, b) ==
    IF safe_num(b).m = 0 THEN None ELSE DivRound(safe_num(a), safe_num(b), 4)

E12 == Canon(1, 12)

E9 == Canon(1, 9)

normalize_scale(value) ==
    LET v == safe_num(value)
    IN IF Gt(v, E12) THEN Canon(v.m, v.e - 6)
       ELSE IF Gt(v, E9) THEN Canon(v.m, v.e - 3)
       ELSE v

\* Python truth value of what dict.get returns
Truthy(v) ==
    \/ v.t = "num" /\ v.m # 0
    \/ v.t = "str" /\ v.s # <<>>

\* ---------- Ratio Functions ----------

current_ratio(current_assets, current_liabilities, assets, liabilities) ==
    LET val == safe_div(current_assets, current_liabilities)
    IN IF val = None /\ Truthy(assets) /\ Truthy(liabilities)
       THEN safe_div(assets, liabilities)
       ELSE val

quick_ratio(current_assets, inventory, current_liabilities, assets, liabilities) ==
    LET val == safe_div(Sub(safe_num(current_assets), safe_num(inventory)), current_liabilities)
    IN IF val = None /\ Truthy(assets) /\ Truthy(liabilities)
       THEN safe_div(Sub(safe_num(assets), safe_num(inventory)), liabilities)
       ELSE val

cash_ratio(cash, current_liabilities, liabilities) ==
    LET val == safe_div(cash, current_liabilities)
    IN IF val = None /\ Truthy(liabilities)
       THEN safe_div(cash, liabilities)
       ELSE val

debt_to_equity(liabilities, equity) == safe_div(liabilities, equity)

debt_ratio(liabilities, assets) == safe_div(liabilities, assets)

interest_coverage(ebit, interest_expense) == safe_div(ebit, interest_expense)

\* round(val * 100, 2) if val is not None else None
Percent(val) == IF val = None THEN None ELSE PyRound(PyMul(val, Num(100)), 2)

gross_profit_margin(gross_profit, revenue) == Percent(safe_div(gross_profit, revenue))

operating_profit_margin(ebit, revenue) == Percent(safe_div(ebit, revenue))

net_profit_margin(net_profit, revenue) == Percent(safe_div(net_profit, revenue))

return_on_assets(net_profit, assets) == Percent(safe_div(net_profit, assets))

\* return_on_equity without its "if val is not None" guard
return_on_equity_unguarded(net_profit, equity) ==
    PyRound(PyMul(safe_div(net_profit, equity), Num(100)), 2)

return_on_equity(net_profit, equity) == Percent(safe_div(net_profit, equity))

return_on_investment(net_profit, investment) == Percent(safe_div(net_profit, investment))

asset_turnover(revenue, assets) == safe_div(revenue, assets)

inventory_turnover(cost_of_sales, inventory) == safe_div(cost_of_sales, inventory)

receivables_turnover(revenue, receivables) == safe_div(revenue, receivables)

earnings_per_share(net_profit, shares_outstanding) == safe_div(net_profit, shares_outstanding)

price_to_earnings(price_per_share, eps) == safe_div(price_per_share, eps)

\* The except clause turns any exception of the weighted sum into None.
\* except Exception: return None
NoneIfRaise(z) == IF z = Raise THEN None ELSE z

\* round(1.2 * A + 1.4 * B + 3.3 * C + 0.6 * D + 1.0 * E, 2)
WeightedSum(A, B, C, D, E) ==
    PyRound(PyAdd(PyAdd(PyAdd(PyAdd(PyMul(Canon(12, 0 - 1), A),
                                    PyMul(Canon(14, 0 - 1), B)),
                              PyMul(Canon(33, 0 - 1), C)),
                        PyMul(Canon(6, 0 - 1), D)),
                  PyMul(Canon(10, 0 - 1), E)), 2)

\* the body of altman_z_score once its five arguments went through safe_num
ZScore(assets, liabilities, equity, revenue, net_profit) ==
    IF assets.m = 0 THEN None
    ELSE NoneIfRaise(WeightedSum(
             safe_div(Sub(assets, liabilities), assets),
             safe_div(equity, assets),
             safe_div(Mul(net_profit, Canon(115, 0 - 2)), assets),
             safe_div(revenue, assets),
             safe_div(equity, IF liabilities.m # 0 THEN liabilities ELSE Num(1))))

altman_z_score(assets, liabilities, equity, revenue, net_profit) ==
    ZScore(safe_num(assets), safe_num(liabilities), safe_num(equity), safe_num(revenue),
           safe_num(net_profit))

\* ---------- Status Evaluation ----------

\* the keys of the ratios dict of compute_all, in insertion order
IndicatorNames ==
    << "current_ratio", "quick_ratio", "cash_ratio", "debt_to_equity_ratio", "debt_ratio",
       "interest_coverage_ratio", "gross_profit_margin", "operating_profit_margin",
       "net_profit_margin", "return_on_assets", "return_on_equity", "return_on_investment",
       "asset_turnover_ratio", "inventory_turnover", "accounts_receivable_turnover",
       "earnings_per_share", "price_to_earnings_ratio", "altman_z_score" >>

\* thresholds.get(indicator, (None, None)): <<good, caution>>
thresholds(indicator) ==
    CASE indicator = "current_ratio" -> <<Canon(20, 0 - 1), Canon(15, 0 - 1)>>
      [] indicator = "quick_ratio" -> <<Canon(10, 0 - 1), Canon(8, 0 - 1)>>
      [] indicator = "cash_ratio" -> <<Canon(2, 0 - 1), Canon(1, 0 - 1)>>
      [] indicator = "debt_to_equity_ratio" -> <<Canon(5, 0 - 1), Canon(10, 0 - 1)>>
      [] indicator = "debt_ratio" -> <<Canon(6, 0 - 1), Canon(8, 0 - 1)>>
      [] indicator = "interest_coverage_ratio" -> <<Canon(30, 0 - 1), Canon(15, 0 - 1)>>
      [] indicator = "gross_profit_margin" -> <<Num(40), Num(20)>>
      [] indicator = "operating_profit_margin" -> <<Num(20), Num(10)>>
      [] indicator = "net_profit_margin" -> <<Num(10), Num(5)>>
      [] indicator = "return_on_assets" -> <<Num(8), Num(4)>>
      [] indicator = "return_on_equity" -> <<Num(15), Num(8)>>
      [] indicator = "return_on_investment" -> <<Num(10), Num(5)>>
      [] indicator = "asset_turnover_ratio" -> <<Canon(10, 0 - 1), Canon(5, 0 - 1)>>
      [] indicator = "inventory_turnover" -> <<Num(5), Num(2)>>
      [] indicator = "accounts_receivable_turnover" -> <<Num(7), Num(3)>>
      [] indicator = "earnings_per_share" -> <<Num(1), Canon(5, 0 - 1)>>
      [] indicator = "price_to_earnings_ratio" -> <<Num(20), Num(40)>>
      [] indicator = "altman_z_score" -> <<Num(3), Canon(18, 0 - 1)>>
      [] OTHER -> <<None, None>>

\* lower_better without price_to_earnings_ratio
lower_better_two(indicator) == indicator \in {"debt_to_equity_ratio", "debt_ratio"}

lower_better(indicator) ==
    indicator \in {"debt_to_equity_ratio", "debt_ratio", "price_to_earnings_ratio"}

\* evaluate_status with the threshold lookup ahead of the None check
evaluate_status_lookup_first(indicator, value) ==
    LET good == thresholds(indicator)[1]
        caution == thresholds(indicator)[2]
    IN IF good = None THEN "unknown"
       ELSE IF value = None THEN "insufficient data"
       ELSE IF lower_better(indicator)
            THEN (IF Le(value, good) THEN "good"
                  ELSE IF Le(value, caution) THEN "caution"
                  ELSE "poor")
            ELSE (IF Ge(value, good) THEN "good"
                  ELSE IF Ge(value, caution) THEN "caution"
                  ELSE "poor")

\* evaluate_status with strict comparisons on the lower-is-better side
evaluate_status_strict(indicator, value) ==
    LET good == thresholds(indicator)[1]
        caution == thresholds(indicator)[2]
    IN IF value = None THEN "insufficient data"
       ELSE IF good = None THEN "unknown"
       ELSE IF lower_better(indicator)
            THEN (IF Lt(value, good) THEN "good"
                  ELSE IF Lt(value, caution) THEN "caution"
                  ELSE "poor")
            ELSE (IF Ge(value, good) THEN "good"
                  ELSE IF Ge(value, caution) THEN "caution"
                  ELSE "poor")

evaluate_status(indicator, value) ==
    LET good == thresholds(indicator)[1]
        caution == thresholds(indicator)[2]
    IN IF value = None THEN "insufficient data"
       ELSE IF good = None THEN "unknown"
       ELSE IF lower_better(indicator)
            THEN (IF Le(value, good) THEN "good"
                  ELSE IF Le(value, caution) THEN "caution"
                  ELSE "poor")
            ELSE (IF Ge(value, good) THEN "good"
                  ELSE IF Ge(value, caution) THEN "caution"
                  ELSE "poor")

\* ---------- Classification ----------

\* the en dash of the source's rating strings is written "-"
rating_map(cls) ==
    CASE cls = "A" -> ("Moodys" :> "Aaa-A2") @@ ("S&P" :> "AAA-A")
      [] cls = "B" -> ("Moodys" :> "Baa1-Baa3") @@ ("S&P" :> "BBB+")
      [] cls = "C" -> ("Moodys" :> "Ba1-Ba3") @@ ("S&P" :> "BB")
      [] cls = "D" -> ("Moodys" :> "B1-B3") @@ ("S&P" :> "B")
      [] cls = "E" -> ("Moodys" :> "Caa-C") @@ ("S&P" :> "CCC-D")
      [] OTHER -> <<>>

\* band with an exclusive limit for class B
band_exclusive(overall_score) ==
    IF Ge(overall_score, Num(90)) THEN <<"A", "Excellent", "Approve">>
    ELSE IF Gt(overall_score, Num(75)) THEN <<"B", "Good", "Proceed">>
    ELSE IF Ge(overall_score, Num(60)) THEN <<"C", "Average", "Proceed with Caution">>
    ELSE IF Ge(overall_score, Num(40)) THEN <<"D", "Weak", "Not Recommended">>
    ELSE <<"E", "Critical", "Decline">>

\* band with the comparison for class C turned round
band_flipped(overall_score) ==
    IF Ge(overall_score, Num(90)) THEN <<"A", "Excellent", "Approve">>
    ELSE IF Ge(overall_score, Num(75)) THEN <<"B", "Good", "Proceed">>
    ELSE IF Le(overall_score, Num(60)) THEN <<"C", "Average", "Proceed with Caution">>
    ELSE IF Ge(overall_score, Num(40)) THEN <<"D", "Weak", "Not Recommended">>
    ELSE <<"E", "Critical", "Decline">>

\* cls, risk, decision of the if/elif chain
band(overall_score) ==
    IF Ge(overall_score, Num(90)) THEN <<"A", "Excellent", "Approve">>
    ELSE IF Ge(overall_score, Num(75)) THEN <<"B", "Good", "Proceed">>
    ELSE IF Ge(overall_score, Num(60)) THEN <<"C", "Average", "Proceed with Caution">>
    ELSE IF Ge(overall_score, Num(40)) THEN <<"D", "Weak", "Not Recommended">>
    ELSE <<"E", "Critical", "Decline">>

\* classify_company without its "if overall_score is None" case
classify_company_unguarded(overall_score) ==
    [company_class |-> band(overall_score)[1],
     risk_category |-> band(overall_score)[2],
     credit_decision |-> band(overall_score)[3],
     ratings |-> rating_map(band(overall_score)[1])]

classify_company(overall_score) ==
    IF overall_score = None
    THEN [company_class |-> "N/A", risk |-> "N/A", decision |-> "N/A", ratings |-> <<>>]
    ELSE [company_class |-> band(overall_score)[1],
          risk_category |-> band(overall_score)[2],
          credit_decision |-> band(overall_score)[3],
          ratings |-> rating_map(band(overall_score)[1])]

\* ---------- Main Computation Engine ----------

\* the FinancialFacts vocabulary of the input map
Vocabulary ==
    { "assets", "liabilities", "equity", "current_assets", "current_liabilities", "cash",
      "short_term_investments", "inventory", "receivables", "revenue", "gross_profit",
      "cost_of_sales", "profit", "ebit", "ebitda", "interest_expense", "investment",
      "shares_outstanding", "share_price" }

\* keys outside the vocabulary: three that compute_all reads, one that it does not
ExtraKeys == {"non_current_liabilities", "avg_inventory", "avg_receivables", "company_name"}

Keys == Vocabulary \cup ExtraKeys

\* data.get(k)
Get(d, k) == IF d[k] = Absent THEN None ELSE d[k]

\* a or b
Or(a, b) == IF Truthy(a) THEN a ELSE b

\* for k in list(data.keys()): data[k] = normalize_scale(data[k])
Normalized(d) == [k \in Keys |-> IF d[k] = Absent THEN Absent ELSE normalize_scale(d[k])]

\* WithLiabilities that sums the two parts whatever liabilities holds
WithLiabilitiesAlways(d) ==
    IF Truthy(Get(d, "current_liabilities")) /\ Truthy(Get(d, "non_current_liabilities"))
    THEN [d EXCEPT !["liabilities"] =
             Add(safe_num(d["current_liabilities"]), safe_num(d["non_current_liabilities"]))]
    ELSE d

\* total liabilities, only if missing
WithLiabilities(d) ==
    IF Truthy(Get(d, "current_liabilities")) /\ Truthy(Get(d, "non_current_liabilities"))
       /\ ~Truthy(Get(d, "liabilities"))
    THEN [d EXCEPT !["liabilities"] =
             Add(safe_num(d["current_liabilities"]), safe_num(d["non_current_liabilities"]))]
    ELSE d

\* max(x, 0)
Max0(x) == IF Gt(x, Num(0)) THEN x ELSE Num(0)

\* auto-derived equity
WithEquity(d) ==
    IF ~Truthy(Get(d, "equity")) /\ Truthy(Get(d, "assets")) /\ Truthy(Get(d, "liabilities"))
    THEN [d EXCEPT !["equity"] = Max0(Sub(safe_num(d["assets"]), safe_num(d["liabilities"])))]
    ELSE d

\* default current assets and current liabilities
WithCurrentAssets(d) ==
    IF ~Truthy(Get(d, "current_assets")) /\ Truthy(Get(d, "assets"))
    THEN [d EXCEPT !["current_assets"] = Mul(safe_num(d["assets"]), Canon(3, 0 - 1))]
    ELSE d

WithCurrentLiabilities(d) ==
    IF ~Truthy(Get(d, "current_liabilities")) /\ Truthy(Get(d, "liabilities"))
    THEN [d EXCEPT !["current_liabilities"] = Mul(safe_num(d["liabilities"]), Canon(45, 0 - 2))]
    ELSE d

\* the dict after the in-place updates of compute_all
Corrected(d) ==
    WithCurrentLiabilities(WithCurrentAssets(WithEquity(WithLiabilities(Normalized(d)))))

\* the ratios dict, as a sequence in the order of IndicatorNames
Ratios(d) ==
    LET avg_inv == safe_num(Or(Get(d, "avg_inventory"), Get(d, "inventory")))
        avg_recv == safe_num(Or(Get(d, "avg_receivables"), Get(d, "receivables")))
    IN << current_ratio(Get(d, "current_assets"), Get(d, "current_liabilities"),
                        Get(d, "assets"), Get(d, "liabilities")),
          quick_ratio(Get(d, "current_assets"), Get(d, "inventory"),
                      Get(d, "current_liabilities"), Get(d, "assets"), Get(d, "liabilities")),
          cash_ratio(Get(d, "cash"), Get(d, "current_liabilities"), Get(d, "liabilities")),
          debt_to_equity(Get(d, "liabilities"), Get(d, "equity")),
          debt_ratio(Get(d, "liabilities"), Get(d, "assets")),
          interest_coverage(Get(d, "ebit"), Get(d, "interest_expense")),
          gross_profit_margin(Get(d, "gross_profit"), Get(d, "revenue")),
          operating_profit_margin(Get(d, "ebit"), Get(d, "revenue")),
          net_profit_margin(Get(d, "profit"), Get(d, "revenue")),
          return_on_assets(Get(d, "profit"), Get(d, "assets")),
          return_on_equity(Get(d, "profit"), Get(d, "equity")),
          return_on_investment(Get(d, "profit"), Get(d, "investment")),
          asset_turnover(Get(d, "revenue"), Get(d, "assets")),
          inventory_turnover(Get(d, "cost_of_sales"), avg_inv),
          receivables_turnover(Get(d, "revenue"), avg_recv),
          earnings_per_share(Get(d, "profit"), Get(d, "shares_outstanding")),
          price_to_earnings(Get(d, "share_price"),
                            earnings_per_share(Get(d, "profit"), Get(d, "shares_outstanding"))),
          altman_z_score(Get(d, "assets"), Get(d, "liabilities"), Get(d, "equity"),
                         Get(d, "revenue"), Get(d, "profit")) >>

\* score_map with 0.5 for caution
score_map_half(status) ==
    CASE status = "good" -> 10
      [] status = "caution" -> 5
      [] status = "poor" -> 2
      [] OTHER -> 0

\* score_map with 0.0 for poor
score_map_zero(status) ==
    CASE status = "good" -> 10
      [] status = "caution" -> 6
      [] status = "poor" -> 0
      [] OTHER -> 0

\* score_map, in tenths: good 1.0, caution 0.6, poor 0.2
score_map(status) ==
    CASE status = "good" -> 10
      [] status = "caution" -> 6
      [] status = "poor" -> 2
      [] OTHER -> 0

InScoreMap(status) == status \in {"good", "caution", "poor"}

\* the scoring loop: results, and the sum and the count over the scored statuses
RECURSIVE ResultsUpTo(_, _)
ResultsUpTo(ratios, n) ==
    IF n = 0 THEN <<>>
    ELSE Append(ResultsUpTo(ratios, n - 1),
                [name |-> IndicatorNames[n], value |-> ratios[n],
                 status |-> evaluate_status(IndicatorNames[n], ratios[n])])

Results(ratios) == ResultsUpTo(ratios, Len(ratios))

RECURSIVE TotalScore(_, _)
TotalScore(results, n) ==
    IF n = 0 THEN 0
    ELSE TotalScore(results, n - 1)
         + (IF InScoreMap(results[n].status) THEN score_map(results[n].status) ELSE 0)

ValidCount(results) == Cardinality({i \in 1..Len(results) : InScoreMap(results[i].status)})

\* OverallScore with 0 in place of None when nothing was scored
OverallScoreZero(results) ==
    IF ValidCount(results) = 0 THEN Num(0)
    ELSE DivRound(Canon(TotalScore(results, Len(results)) * 100, 0 - 1),
                  Num(ValidCount(results)), 2)

\* round((total_score / valid_count) * 100, 2) if valid_count else None
OverallScore(results) ==
    IF ValidCount(results) = 0 THEN None
    ELSE DivRound(Canon(TotalScore(results, Len(results)) * 100, 0 - 1),
                  Num(ValidCount(results)), 2)

\* the result for a ratios dict: the error result if building it raised, else
\* the scored report
ReportOf(ratios) ==
    LET results == Results(ratios)
        overall_score == OverallScore(results)
    IN IF \E i \in 1..Len(ratios) : ratios[i] = Raise
       THEN [error |-> "Computation failed"]
       ELSE [indicators |-> results, overall_health_score |-> overall_score]
            @@ classify_company(overall_score)

\* the report that compute_all returns for the dict as corrected
Report(d) == ReportOf(Ratios(d))

\* compute_all(data)
\* the dict as compute_all leaves it, and the returned report
Returned(corrected) == [data |-> corrected, result |-> Report(corrected)]

compute_all(d) == Returned(Corrected(d))

\* ---------- Endpoint ----------

EmptyMap == [k \in Keys |-> Absent]

\* POST /financial-analysis with the JSON object d as its body: the response, and
\* the payload dict as the handler leaves it. "not financial_data" holds for {}.
\* the handler after compute_all returned out
Respond(out) ==
    IF "indicators" \notin DOMAIN out.result
    THEN [data |-> out.data,
          response |-> [status_code |-> 422,
                        detail |-> "Indicator computation returned empty results."]]
    ELSE [data |-> out.data,
          response |-> [status_code |-> 200,
                        status |-> "success",
                        data_received |-> out.data,
                        results |-> out.result]]

financial_analysis(d) ==
    IF d = EmptyMap
    THEN [data |-> d,
          response |-> [status_code |-> 400,
                        detail |-> "Invalid or missing financial data payload."]]
    ELSE Respond(compute_all(d))

\* ---------- Inputs ----------

MaxEdits == 1

\* dict literal: the keys of pairs hold a value, every other key is absent
Map(pairs) ==
    [k \in Keys |-> IF \E p \in pairs : p[1] = k
                    THEN (CHOOSE p \in pairs : p[1] = k)[2]
                    ELSE Absent]

\* the boundary inputs of the specification and one complete balance sheet
Scenarios ==
    { EmptyMap,
      Map({<<"current_assets", Num(200)>>, <<"current_liabilities", Num(100)>>}),
      Map({<<"assets", Num(100)>>, <<"liabilities", Num(60)>>}),
      Map({<<"revenue", Num(1000)>>, <<"profit", Num(100)>>}),
      Map({<<"liabilities", Num(500)>>, <<"equity", Num(0)>>}),
      Map({<<"assets", Num(1000)>>, <<"liabilities", Num(600)>>, <<"equity", Num(400)>>,
           <<"current_assets", Num(300)>>, <<"current_liabilities", Num(200)>>,
           <<"cash", Num(50)>>, <<"short_term_investments", Num(20)>>,
           <<"inventory", Num(80)>>, <<"receivables", Num(100)>>,
           <<"revenue", Num(1200)>>, <<"gross_profit", Num(480)>>,
           <<"cost_of_sales", Num(720)>>, <<"profit", Num(120)>>, <<"ebit", Num(180)>>,
           <<"ebitda", Num(200)>>, <<"interest_expense", Num(30)>>,
           <<"investment", Num(500)>>, <<"shares_outstanding", Num(100)>>,
           <<"share_price", Num(15)>>}) }

\* keys that the ratios use as denominators only: a value beyond 1e15 stays in
\* range there
DenominatorKeys == {"investment", "interest_expense", "shares_outstanding", "receivables"}

\* 3e15
Huge == Canon(3, 15)

\* what an edit may put under key k: nothing (the key is removed), null, numbers,
\* garbage text, a number written with a thousands separator
EditValues(k) ==
    { Absent, None, Num(0), Num(1000), Num(0 - 50),
      Str(<<"a", "b", "c">>), Str(<<"1", ",", "0", "0", "0">>) }
    \cup (IF k \in DenominatorKeys THEN {Huge} ELSE {})

RECURSIVE Edited(_, _)
Edited(maps, n) ==
    IF n = 0 THEN maps
    ELSE Edited(maps \cup {[d EXCEPT ![k] = v] : <<d, k, v>> \in
                             {<<d, k, v>> \in maps \X Keys \X UNION {EditValues(k) : k \in Keys} :
                                 v \in EditValues(k)}},
                n - 1)

\* the input maps: a scenario with at most MaxEdits keys set, reset or removed
Inputs == Edited(Scenarios, MaxEdits)

\* ---------- State machine ----------

\* a path of /tmp that does not exist
NoFile == [state |-> "missing"]

\* /tmp before any request: neither last_analysis.json nor report.pdf exists
EmptyTmp == [last_analysis |-> NoFile, report_pdf |-> NoFile]

\* no client is modelled
NoClients == <<>>

\* no /analyze call has completed yet
NoAnalysis == [state |-> "none"]

NoResponse == [status_code |-> 0]

NoClass == [company_class |-> "-"]

\* no function is being called on its own
NoCall == [fn |-> "-", returned |-> FALSE]

Init ==
    /\ data \in Inputs
    /\ received = data
    /\ reports = <<>>
    /\ response = NoResponse
    /\ tmp = EmptyTmp
    /\ clients = NoClients
    /\ completed = NoAnalysis
    /\ pc = "start"
    /\ score_a = None
    /\ score_b = None
    /\ class_a = NoClass
    /\ class_b = NoClass
    /\ call = NoCall

\* A caller invokes compute_all on its dict, and again on the same dict, any
\* number of times; reports keeps the results of the last two calls.
ComputeAll ==
    /\ pc \in {"start", "called", "called_again"}
    /\ \E out \in {compute_all(data)} :
          /\ data' = out.data
          /\ reports' = IF reports = <<>> THEN <<out.result>>
                        ELSE <<reports[Len(reports)], out.result>>
    /\ pc' = IF pc = "start" THEN "called" ELSE "called_again"
    /\ UNCHANGED <<received, response, score_a, score_b, class_a, class_b, call,
                 tmp, clients, completed>>

\* the endpoint handles a request whose JSON body is the dict
FinancialAnalysis ==
    /\ pc = "start"
    /\ \E out \in {financial_analysis(data)} :
          /\ data' = out.data
          /\ response' = out.response
          /\ reports' = IF out.response.status_code = 200
                        THEN <<out.response.results>>
                        ELSE reports
    /\ pc' = "responded"
    /\ UNCHANGED <<received, score_a, score_b, class_a, class_b, call,
                 tmp, clients, completed>>

Next == ComputeAll \/ FinancialAnalysis

Spec == Init /\ [][Next]_vars

\* ---------- classify_company on its own ----------

MaxScoreSteps == 200

\* scores by half points from 0, the two neighbours of every band limit, a
\* negative score, and None
Scores ==
    {Canon(5 * k, 0 - 1) : k \in 0..MaxScoreSteps}
    \cup {Canon(n, 0 - 2) : n \in {3999, 4001, 5999, 6001, 7499, 7501, 8999, 9001}}
    \cup {Num(0 - 1), None}

InitClassify ==
    /\ data = EmptyMap
    /\ received = EmptyMap
    /\ reports = <<>>
    /\ response = NoResponse
    /\ tmp = EmptyTmp
    /\ clients = NoClients
    /\ completed = NoAnalysis
    /\ pc = "start"
    /\ score_a \in Scores
    /\ score_b \in Scores
    /\ class_a = NoClass
    /\ class_b = NoClass
    /\ call = NoCall

\* two callers classify a score each
Classify ==
    /\ pc = "start"
    /\ class_a' = classify_company(score_a)
    /\ class_b' = classify_company(score_b)
    /\ pc' = "classified"
    /\ UNCHANGED <<data, received, reports, response, score_a, score_b, call,
                 tmp, clients, completed>>

NextClassify == Classify

SpecClassify == InitClassify /\ [][NextClassify]_vars

\* ---------- evaluate_status on its own, next to compute_all ----------

\* the limits of the thresholds table, in hundredths
Limits ==
    {10, 20, 50, 60, 80, 100, 150, 180, 200, 300, 400, 500, 700, 800, 1000, 1500, 2000, 4000}

\* None, every limit and its two neighbours at 0.01, zero, a negative and a
\* large value
StatusValues ==
    {None, Num(0), Num(0 - 1), Canon(1, 4)}
    \cup {Canon(h + d, 0 - 2) : h \in Limits, d \in {0 - 1, 0, 1}}

\* indicator names: the 18 of the table and two that it has no entry for
StatusNames == {IndicatorNames[i] : i \in 1..Len(IndicatorNames)} \cup {"equity_ratio", ""}

\* {current_assets: 200, current_liabilities: 100} and {revenue: 1000, profit: 100}
LiquidityOnly == Map({<<"current_assets", Num(200)>>, <<"current_liabilities", Num(100)>>})

ProfitOnly == Map({<<"revenue", Num(1000)>>, <<"profit", Num(100)>>})

InitStatus ==
    /\ data \in {LiquidityOnly, ProfitOnly}
    /\ received = data
    /\ reports = <<>>
    /\ response = NoResponse
    /\ tmp = EmptyTmp
    /\ clients = NoClients
    /\ completed = NoAnalysis
    /\ pc = "start"
    /\ score_a = None
    /\ score_b = None
    /\ class_a = NoClass
    /\ class_b = NoClass
    /\ call \in {[fn |-> "evaluate_status", indicator |-> n, value |-> v,
                   returned |-> FALSE, result |-> ""] : n \in StatusNames, v \in StatusValues}

\* a caller evaluates the status of one value of one indicator
EvaluateStatus ==
    /\ call.fn = "evaluate_status"
    /\ ~call.returned
    /\ call' = [call EXCEPT !.returned = TRUE,
                            !.result = evaluate_status(call.indicator, call.value)]
    /\ UNCHANGED <<data, received, reports, response, pc, score_a, score_b, class_a, class_b,
                 tmp, clients, completed>>

NextStatus == EvaluateStatus \/ ComputeAll

SpecStatus == InitStatus /\ [][NextStatus]_vars

\* ---------- safe_div on its own ----------

\* arguments of safe_div: None, numbers (zero, negative, fractional, tiny) and
\* text (empty, garbage, numerals)
DivValues ==
    { None, Num(0), Num(1), Num(3), Num(0 - 5), Num(1000), Canon(25, 0 - 1), Canon(1, 0 - 5),
      Str(<<>>), Str(<<"a", "b", "c">>), Str(<<"0">>), Str(<<"0", ".", "0">>),
      Str(<<"1", ",", "0", "0", "0">>), Str(<<" ", "7", " ">>) }

InitDiv ==
    /\ data = EmptyMap
    /\ received = EmptyMap
    /\ reports = <<>>
    /\ response = NoResponse
    /\ tmp = EmptyTmp
    /\ clients = NoClients
    /\ completed = NoAnalysis
    /\ pc = "start"
    /\ score_a = None
    /\ score_b = None
    /\ class_a = NoClass
    /\ class_b = NoClass
    /\ call \in {[fn |-> "safe_div", a |-> a, b |-> b, returned |-> FALSE, result |-> None] :
                   a \in DivValues, b \in DivValues}

\* a caller divides
SafeDiv ==
    /\ call.fn = "safe_div"
    /\ ~call.returned
    /\ call' = [call EXCEPT !.returned = TRUE, !.result = safe_div(call.a, call.b)]
    /\ UNCHANGED <<data, received, reports, response, pc, score_a, score_b, class_a, class_b,
                 tmp, clients, completed>>

NextDiv == SafeDiv

SpecDiv == InitDiv /\ [][NextDiv]_vars

\* ---------- POST /analyze: the weighted scoring of routes/analyze.py ----------

\* safe_float: the same conversion as safe_num
safe_float(x) == safe_num(x)

\* round(safe_div(a, b), nd) with the safe_div of routes/analyze.py, which
\* answers 0.0 for a falsy divisor and a / b otherwise
RoundedDiv(a, b, nd) == IF b.m = 0 THEN Num(0) ELSE DivRound(a, b, nd)

\* the keys of the indicators object that the scoring reads
AnalyzeKeys == {"assets", "liabilities", "equity", "revenue", "profit", "ebitda"}

\* if not d.get("assets") and d.get("liabilities"): assets = liabilities * 1.05
DeriveAssets(d) ==
    IF d["assets"].m = 0 /\ d["liabilities"].m # 0
    THEN [d EXCEPT !["assets"] = Mul(d["liabilities"], Canon(105, 0 - 2))]
    ELSE d

\* if not d.get("equity") and d.get("assets") and d.get("liabilities")
DeriveEquity(d) ==
    IF d["equity"].m = 0 /\ d["assets"].m # 0 /\ d["liabilities"].m # 0
    THEN [d EXCEPT !["equity"] = Sub(d["assets"], d["liabilities"])]
    ELSE d

normalize_indicators(d) == DeriveEquity(DeriveAssets([k \in AnalyzeKeys |-> safe_float(d[k])]))

\* 1.2 * (E / A) + 1.4 * (P / A) + 3.3, rounded to 2 decimals; the quotients
\* are carried to 4 decimals
AltmanProxy(A, E, P) ==
    Round(Add(Add(Mul(Canon(12, 0 - 1), RoundedDiv(E, A, 4)),
                  Mul(Canon(14, 0 - 1), RoundedDiv(P, A, 4))),
              Canon(33, 0 - 1)), 2)

\* the indicators dict, as a sequence in the order of IndicatorNames
Indicators18(A, L, E, R, P, EBIT) ==
    << RoundedDiv(A, L, 2),
       RoundedDiv(Mul(A, Canon(9, 0 - 1)), L, 2),
       RoundedDiv(Mul(A, Canon(2, 0 - 1)), L, 2),
       RoundedDiv(L, E, 2),
       RoundedDiv(L, A, 2),
       RoundedDiv(EBIT, Mul(L, Canon(5, 0 - 2)), 2),
       RoundedDiv(P, R, 2),
       RoundedDiv(EBIT, R, 2),
       RoundedDiv(P, R, 2),
       RoundedDiv(P, A, 2),
       RoundedDiv(P, E, 2),
       RoundedDiv(P, A, 2),
       RoundedDiv(R, A, 2),
       Canon(15, 0 - 1),
       Canon(12, 0 - 1),
       RoundedDiv(P, Num(100), 2),
       Num(15),
       AltmanProxy(A, E, P) >>

compute_18_indicators(v) ==
    IF \A k \in AnalyzeKeys : safe_float(v[k]).m = 0
    THEN [error |-> "Insufficient data"]
    ELSE [indicators |-> Indicators18(safe_float(v["assets"]), safe_float(v["liabilities"]),
                                       safe_float(v["equity"]), safe_float(v["revenue"]),
                                       safe_float(v["profit"]), safe_float(v["ebitda"]))]

\* weights, in thousandths, in the order of IndicatorNames
weights == <<80, 80, 80, 100, 100, 100, 50, 50, 50, 50, 50, 50, 50, 50, 50, 25, 25, 60>>

\* the grade 1..5 of value v of indicator k
grade(k, v) ==
    IF k \in {"debt_ratio", "debt_to_equity_ratio"}
    THEN (IF Lt(v, Canon(3, 0 - 1)) THEN 5 ELSE IF Lt(v, Canon(5, 0 - 1)) THEN 4
          ELSE IF Lt(v, Canon(7, 0 - 1)) THEN 3 ELSE IF Lt(v, Num(1)) THEN 2 ELSE 1)
    ELSE (IF Ge(v, Num(2)) THEN 5 ELSE IF Ge(v, Canon(15, 0 - 1)) THEN 4
          ELSE IF Ge(v, Num(1)) THEN 3 ELSE IF Ge(v, Canon(5, 0 - 1)) THEN 2 ELSE 1)

grades(ind) == [i \in 1..Len(ind) |-> grade(IndicatorNames[i], ind[i])]

\* sum(weights[k] * grades[k] for k in weights), in thousandths
RECURSIVE weighted(_, _)
weighted(g, n) == IF n = 0 THEN 0 ELSE weighted(g, n - 1) + weights[n] * g[n]

\* company_class, risk, decision of the if/elif chain of compute_weighted_score;
\* its rating_map is the one of classify_company
analyze_band(eval_score) ==
    IF Ge(eval_score, Num(90)) THEN <<"A", "Excellent", "Approve">>
    ELSE IF Ge(eval_score, Num(75)) THEN <<"B", "Good", "Proceed">>
    ELSE IF Ge(eval_score, Num(60)) THEN <<"C", "Average", "Proceed with Caution">>
    ELSE IF Ge(eval_score, Num(40)) THEN <<"D", "Weak", "Not Recommended">>
    ELSE <<"E", "Critical", "Decline">>

\* the scores for the grades g and their weighted sum w, in thousandths:
\* eval_score = round((weighted / 5) * 100, 1)
ScoresOf(g, w) ==
    [grades |-> g,
     weighted_credit_score |-> Round(Canon(w, 0 - 3), 2),
     evaluation_score |-> DivRound(Num(w), Num(50), 1),
     company_class |-> analyze_band(DivRound(Num(w), Num(50), 1))[1],
     risk_category |-> analyze_band(DivRound(Num(w), Num(50), 1))[2],
     credit_decision |-> analyze_band(DivRound(Num(w), Num(50), 1))[3],
     ratings |-> rating_map(analyze_band(DivRound(Num(w), Num(50), 1))[1])]

compute_weighted_score(ind) ==
    IF "error" \in DOMAIN ind
    THEN [error |-> "Insufficient data for scoring"]
    ELSE ScoresOf(grades(ind.indicators), weighted(grades(ind.indicators), 18))

\* what generate_ai_report returns: the text of the model, or the failure text
Summaries == {"report", "Report generation failed"}

\* the handler once compute_18_indicators returned
AnalyzeRespond(ind18, summary) ==
    IF "error" \in DOMAIN ind18
    THEN [error |-> "Insufficient data"]
    ELSE [status |-> "success", analysis_raw |-> summary,
          scores |-> compute_weighted_score(ind18)]

\* POST /analyze with the indicators object d
analyze(d, summary) ==
    AnalyzeRespond(compute_18_indicators(normalize_indicators(d)), summary)

\* what json.dump(result, f) leaves in /tmp/last_analysis.json, as far as
\* download_report reads it; company_name is data["indicators"]["company_name"]
Stored(result, company_name) ==
    [state |-> "complete", analysis_raw |-> result.analysis_raw, scores |-> result.scores,
     company_name |-> company_name]

\* the figures that a request may carry under each key
AnalyzeValues == {Num(0), Num(10), Num(100), Num(1000), Num(4000)}

InitAnalyze ==
    /\ data = EmptyMap
    /\ received = EmptyMap
    /\ reports = <<>>
    /\ response = NoResponse
    /\ tmp = EmptyTmp
    /\ clients = NoClients
    /\ completed = NoAnalysis
    /\ pc = "start"
    /\ score_a = None
    /\ score_b = None
    /\ class_a = NoClass
    /\ class_b = NoClass
    /\ call \in {[fn |-> "analyze", indicators |-> d, returned |-> FALSE, result |-> NoResponse] :
                   d \in [AnalyzeKeys -> AnalyzeValues]}

\* the endpoint handles a request
Analyze ==
    /\ call.fn = "analyze"
    /\ ~call.returned
    /\ \E summary \in Summaries :
          \E out \in {analyze(call.indicators, summary)} :
              /\ call' = [call EXCEPT !.returned = TRUE, !.result = out]
              /\ tmp' = IF "error" \in DOMAIN out THEN tmp
                        ELSE [tmp EXCEPT !.last_analysis = Stored(out, Absent)]
              /\ completed' = IF "error" \in DOMAIN out THEN completed ELSE Stored(out, Absent)
    /\ UNCHANGED <<data, received, reports, response, pc, score_a, score_b, class_a, class_b,
                 clients>>

NextAnalyze == Analyze

SpecAnalyze == InitAnalyze /\ [][NextAnalyze]_vars

\* ---------- compute_all on one company reported in several currency scales ----------

\* the fields that hold an amount of money
MonetaryKeys == Vocabulary \ {"shares_outstanding"}

\* the input with every monetary field multiplied by k
Scaled(d, k) ==
    [key \in Keys |-> IF key \in MonetaryKeys /\ IsNum(d[key]) THEN Mul(d[key], k) ELSE d[key]]

\* balance sheets in units
Companies ==
    { Map({<<"assets", Num(a)>>, <<"liabilities", Num(l)>>, <<"equity", Num(a - l)>>,
           <<"current_assets", Num(600)>>, <<"current_liabilities", Num(400)>>,
           <<"revenue", Num(r)>>, <<"gross_profit", Num(480)>>, <<"ebit", Num(180)>>,
           <<"profit", Num(120)>>}) :
        a \in {2000, 5000, 8000}, l \in {500, 1500}, r \in {1200, 40000} }

\* units, thousands, millions, and beyond
ScaleFactors == {Num(1), Canon(1, 3), Canon(1, 6), Canon(1, 7), Canon(1, 9), Canon(1, 10)}

InitScale ==
    /\ call \in {[fn |-> "scale", base |-> d, k |-> k, returned |-> FALSE] :
                   d \in Companies, k \in ScaleFactors}
    /\ data = Scaled(call.base, call.k)
    /\ received = data
    /\ reports = <<>>
    /\ response = NoResponse
    /\ tmp = EmptyTmp
    /\ clients = NoClients
    /\ completed = NoAnalysis
    /\ pc = "start"
    /\ score_a = None
    /\ score_b = None
    /\ class_a = NoClass
    /\ class_b = NoClass

NextScale == ComputeAll

SpecScale == InitScale /\ [][NextScale]_vars

\* ---------- utils/analyze_with_chatgpt.py ----------

\* category, decision of the if/elif chain of compute_weighted_score
chatgpt_band(evaluation_score) ==
    IF Ge(evaluation_score, Num(90)) THEN <<"Excellent", "Safe to Proceed">>
    ELSE IF Ge(evaluation_score, Num(76)) THEN <<"Good", "Safe to Proceed">>
    ELSE IF Ge(evaluation_score, Num(60)) THEN <<"Average", "Proceed with Caution">>
    ELSE IF Ge(evaluation_score, Num(40)) THEN <<"Weak", "Not Recommended">>
    ELSE <<"Critical", "Decline">>

\* float(value) of grade_indicator; None stands for the exception it catches
GradeFloat(value) ==
    IF IsNum(value) THEN value
    ELSE IF value.t = "str" THEN ParseFloat(Strip(value.s))
    ELSE None

\* the numeric score for v at or above the four limits, best first
AtLeast(v, a, b, c, d) ==
    IF Ge(v, a) THEN 5 ELSE IF Ge(v, b) THEN 4 ELSE IF Ge(v, c) THEN 3
    ELSE IF Ge(v, d) THEN 2 ELSE 1

\* the numeric score for v at or below the four limits, best first
AtMost(v, a, b, c, d) ==
    IF Le(v, a) THEN 5 ELSE IF Le(v, b) THEN 4 ELSE IF Le(v, c) THEN 3
    ELSE IF Le(v, d) THEN 2 ELSE 1

\* the numeric score 5..1 of grade_indicator for a value that float() accepts
GradeOf(name, v) ==
    IF name \in {"current_ratio", "quick_ratio", "cash_ratio"}
    THEN AtLeast(v, Num(2), Canon(15, 0 - 1), Num(1), Canon(7, 0 - 1))
    ELSE IF name \in {"debt_to_equity_ratio", "debt_ratio"}
    THEN AtMost(v, Canon(3, 0 - 1), Canon(6, 0 - 1), Num(1), Canon(15, 0 - 1))
    ELSE IF name \in {"gross_profit_margin", "operating_profit_margin", "net_profit_margin"}
    THEN AtLeast(v, Num(20), Num(15), Num(10), Num(5))
    ELSE IF name \in {"return_on_assets", "return_on_equity", "return_on_investment"}
    THEN AtLeast(v, Num(15), Num(10), Num(5), Num(1))
    ELSE IF name = "altman_z_score"
    THEN AtLeast(v, Num(3), Canon(25, 0 - 1), Canon(18, 0 - 1), Canon(12, 0 - 1))
    ELSE AtLeast(v, Num(5), Num(4), Num(3), Num(2))

\* grade_indicator: the numeric score, 3 for a value that is not a number; the
\* letter is Letters[score]
grade_indicator(name, value) ==
    IF GradeFloat(value) = None THEN 3 ELSE GradeOf(name, GradeFloat(value))

Letters == <<"E", "D", "C", "B", "A">>

\* graded_values, over the indicators in the order of IndicatorNames; 0 where
\* the dict has no such key
graded_values(indicators) ==
    [i \in 1..Len(IndicatorNames) |->
        IF indicators[i] = Absent THEN 0 ELSE grade_indicator(IndicatorNames[i], indicators[i])]

\* graded_letters
graded_letters(indicators) ==
    [i \in 1..Len(IndicatorNames) |->
        IF indicators[i] = Absent THEN "-" ELSE Letters[graded_values(indicators)[i]]]

\* sum(weights[k] * indicator_scores.get(k, 3) for k in weights), in thousandths
RECURSIVE chatgpt_score(_, _)
chatgpt_score(indicator_scores, n) ==
    IF n = 0 THEN 0
    ELSE chatgpt_score(indicator_scores, n - 1)
         + weights[n] * (IF indicator_scores[n] = 0 THEN 3 ELSE indicator_scores[n])

\* the result of compute_weighted_score for the sum w, in thousandths
ChatgptScores(w) ==
    [weighted_credit_score |-> Round(Canon(w, 0 - 3), 2),
     evaluation_score |-> DivRound(Num(w), Num(50), 1),
     risk_category |-> chatgpt_band(DivRound(Num(w), Num(50), 1))[1],
     credit_decision |-> chatgpt_band(DivRound(Num(w), Num(50), 1))[2]]

\* compute_weighted_score of utils/analyze_with_chatgpt.py
chatgpt_compute_weighted_score(indicator_scores) ==
    ChatgptScores(chatgpt_score(indicator_scores, Len(IndicatorNames)))

\* the models in the opposite order
ChatModelsReversed == <<"gpt-4o", "gpt-5">>

\* for model in ["gpt-5", "gpt-4o"]
ChatModels == <<"gpt-5", "gpt-4o">>

\* what one call of client.chat.completions.create leads to: an exception, a
\* text that is empty once stripped, a text
Completions == {"raise", "empty", "text"}

\* the indicator dicts passed to analyze_with_chatgpt
ChatIndicators ==
    { [i \in 1..Len(IndicatorNames) |->
          CASE IndicatorNames[i] = "current_ratio" -> cr
            [] IndicatorNames[i] = "debt_ratio" -> dr
            [] IndicatorNames[i] = "net_profit_margin" -> npm
            [] IndicatorNames[i] = "return_on_equity" -> Num(12)
            [] IndicatorNames[i] = "altman_z_score" -> Canon(27, 0 - 1)
            [] IndicatorNames[i] = "inventory_turnover" -> Num(4)
            [] OTHER -> Absent] :
        cr \in {Absent, Num(2), Canon(5, 0 - 1)},
        dr \in {Absent, Canon(2, 0 - 1), Num(2)},
        npm \in {None, Num(25), Str(<<"1", "2">>)} }

InitChat ==
    /\ data = EmptyMap
    /\ received = EmptyMap
    /\ reports = <<>>
    /\ response = NoResponse
    /\ tmp = EmptyTmp
    /\ clients = NoClients
    /\ completed = NoAnalysis
    /\ pc = "start"
    /\ score_a = None
    /\ score_b = None
    /\ class_a = NoClass
    /\ class_b = NoClass
    /\ call \in {[fn |-> "analyze_with_chatgpt", indicators |-> ind, client |-> c,
                  api_key |-> k, at |-> "entry", tried |-> <<>>,
                  returned |-> FALSE, result |-> NoResponse] :
                   ind \in ChatIndicators, c \in BOOLEAN, k \in BOOLEAN}

\* analyze_with_chatgpt up to its loop: without a client it builds one, and
\* get_openai_client raises ValueError when OPENAI_API_KEY is not set; the
\* grades and the scores are computed from the indicators alone
ChatBegin ==
    /\ call.fn = "analyze_with_chatgpt"
    /\ call.at = "entry"
    /\ call' = IF ~call.client /\ ~call.api_key
               THEN [call EXCEPT !.at = "done", !.returned = TRUE,
                                 !.result = [exception |-> "ValueError"]]
               ELSE [call EXCEPT !.at = "loop"]
    /\ UNCHANGED <<data, received, reports, response, pc, score_a, score_b, class_a, class_b,
                 tmp, clients, completed>>

\* the result returned from inside the loop
ChatSuccess(indicators) ==
    [analysis_raw |-> "text",
     scores |-> chatgpt_compute_weighted_score(graded_values(indicators)),
     structured_report |-> "structured",
     graded_indicators |-> graded_letters(indicators)]

\* the result returned after the loop
ChatFailure(indicators) ==
    [analysis_raw |-> "No analysis generated.",
     scores |-> chatgpt_compute_weighted_score(graded_values(indicators)),
     structured_report |-> "{}",
     graded_indicators |-> graded_letters(indicators)]

\* one iteration of the loop: the next model is called; a non-empty text is
\* returned, an exception or an empty text moves on to the next model, and the
\* function returns after the last one
ChatTry ==
    /\ call.fn = "analyze_with_chatgpt"
    /\ call.at = "loop"
    /\ \E completion \in Completions :
          call' = IF completion = "text"
                  THEN [call EXCEPT !.tried = Append(@, <<ChatModels[Len(@) + 1], completion>>),
                                    !.at = "done", !.returned = TRUE,
                                    !.result = ChatSuccess(call.indicators)]
                  ELSE IF Len(call.tried) + 1 = Len(ChatModels)
                  THEN [call EXCEPT !.tried = Append(@, <<ChatModels[Len(@) + 1], completion>>),
                                    !.at = "done", !.returned = TRUE,
                                    !.result = ChatFailure(call.indicators)]
                  ELSE [call EXCEPT !.tried = Append(@, <<ChatModels[Len(@) + 1], completion>>)]
    /\ UNCHANGED <<data, received, reports, response, pc, score_a, score_b, class_a, class_b,
                 tmp, clients, completed>>

NextChat == ChatBegin \/ ChatTry

SpecChat == InitChat /\ [][NextChat]_vars

\* ---------- the two narrative paths: /analyze and analyze_with_chatgpt ----------

InitNarrative == InitAnalyze \/ InitChat

NextNarrative == Analyze \/ ChatBegin \/ ChatTry

SpecNarrative == InitNarrative /\ [][NextNarrative]_vars

\* ---------- the three classification tables on one score ----------

\* the scores from 0 to 100
TableScores == {s \in Scores : IsNum(s) /\ Ge(s, Num(0)) /\ Le(s, Num(100))}

InitTables ==
    /\ data = EmptyMap
    /\ received = EmptyMap
    /\ reports = <<>>
    /\ response = NoResponse
    /\ tmp = EmptyTmp
    /\ clients = NoClients
    /\ completed = NoAnalysis
    /\ pc = "start"
    /\ score_a \in TableScores
    /\ score_b = None
    /\ class_a = NoClass
    /\ class_b = NoClass
    /\ call = NoCall

\* the score is classified by classify_company and by the two
\* compute_weighted_score functions
Tabulate ==
    /\ pc = "start"
    /\ class_a' = classify_company(score_a)
    /\ call' = [fn |-> "tables", returned |-> TRUE,
                analyze |-> analyze_band(score_a), chatgpt |-> chatgpt_band(score_a)]
    /\ pc' = "classified"
    /\ UNCHANGED <<data, received, reports, response, score_a, score_b, class_b,
                 tmp, clients, completed>>

NextTables == Tabulate

SpecTables == InitTables /\ [][NextTables]_vars

\* ---------- /analyze and /report/download, two clients ----------

Clients == {1, 2}

\* no answer yet
Pending == [request |-> "none"]

\* last_analysis.json after open(path, "w") and before json.dump has flushed
Truncated == [state |-> "partial"]

\* the request bodies of a client: its own company, its own company with a
\* number as company_name, figures that are all zero, and a body that is not
\* an object
Payloads(c) ==
    { [kind |-> "object", company_name |-> Str(<<"c", IF c = 1 THEN "1" ELSE "2">>),
       indicators |-> [k \in AnalyzeKeys |-> IF k = "liabilities" THEN Num(10) ELSE Num(100 * c)]],
      [kind |-> "object", company_name |-> Num(c),
       indicators |-> [k \in AnalyzeKeys |-> IF k = "liabilities" THEN Num(10) ELSE Num(100 * c)]],
      [kind |-> "object", company_name |-> Absent,
       indicators |-> [k \in AnalyzeKeys |-> Num(0)]],
      [kind |-> "array"] }

\* a client between two requests, with the response to its last request
InitReport ==
    /\ data = EmptyMap
    /\ received = EmptyMap
    /\ reports = <<>>
    /\ response = NoResponse
    /\ pc = "start"
    /\ score_a = None
    /\ score_b = None
    /\ class_a = NoClass
    /\ class_b = NoClass
    /\ call = NoCall
    /\ tmp = EmptyTmp
    /\ completed = NoAnalysis
    /\ clients = [c \in Clients |->
                      [pc |-> "idle", response |-> Pending, own |-> NoAnalysis]]

\* the handler of POST /analyze from its entry to open("/tmp/last_analysis.json", "w"):
\* a body that is not an object ends in 500 and figures that are all zero in
\* the "Insufficient data" answer, both before the file is touched; otherwise
\* the result is built and the file is opened, which truncates it. The handler
\* is a coroutine that does not await between open and close, so no other
\* /analyze runs in between.
AnalyzeOpen(c) ==
    /\ clients[c].pc = "idle"
    /\ \A d \in Clients : clients[d].pc # "opened"
    /\ \E body \in Payloads(c) :
          IF body.kind # "object"
          THEN /\ clients' = [clients EXCEPT ![c].response =
                                   [request |-> "analyze", status_code |-> 500]]
               /\ tmp' = tmp
          ELSE \E out \in {analyze(body.indicators, "report")} :
                  IF "error" \in DOMAIN out
                  THEN /\ clients' = [clients EXCEPT ![c].response =
                                           [request |-> "analyze"] @@ out]
                       /\ tmp' = tmp
                  ELSE /\ clients' = [clients EXCEPT ![c] =
                                         [pc |-> "opened", response |-> Pending, own |-> @.own,
                                          result |-> Stored(out, body.company_name)]]
                       /\ tmp' = [tmp EXCEPT !.last_analysis = Truncated]
    /\ UNCHANGED <<data, received, reports, response, pc, score_a, score_b, class_a, class_b,
                   call, completed>>

\* the downloads in progress learn that analysis a has completed
Noticing(cs, a) ==
    [d \in DOMAIN cs |->
        IF cs[d].pc \in {"checked", "loaded", "rendered"}
        THEN [cs[d] EXCEPT !.window = @ \cup {a}]
        ELSE cs[d]]

\* json.dump(result, f), the end of the with block, and return result
AnalyzeDump(c) ==
    /\ clients[c].pc = "opened"
    /\ tmp' = [tmp EXCEPT !.last_analysis = clients[c].result]
    /\ completed' = clients[c].result
    /\ clients' = Noticing([clients EXCEPT ![c] =
                               [pc |-> "idle", response |-> [request |-> "analyze", status |-> "success"],
                                own |-> clients[c].result]],
                           clients[c].result)
    /\ UNCHANGED <<data, received, reports, response, pc, score_a, score_b, class_a, class_b,
                   call>>

\* download_report up to os.path.exists: 404 when the file is not there
DownloadCheck(c) ==
    /\ clients[c].pc = "idle"
    /\ clients' = [clients EXCEPT ![c] =
                      IF tmp.last_analysis.state = "missing"
                      THEN [pc |-> "idle", own |-> @.own, own_at_start |-> @.own,
                            window |-> {completed},
                            response |-> [request |-> "download", status_code |-> 404]]
                      ELSE [pc |-> "checked", response |-> Pending, own |-> @.own,
                            own_at_start |-> @.own, window |-> {completed}]]
    /\ UNCHANGED <<data, received, reports, response, pc, score_a, score_b, class_a, class_b,
                   call, tmp, completed>>

\* json.load(f): a file that is not completely written raises JSONDecodeError,
\* which nothing catches
DownloadLoad(c) ==
    /\ clients[c].pc = "checked"
    /\ clients' = [clients EXCEPT ![c] =
                      IF tmp.last_analysis.state = "complete"
                      THEN [@ EXCEPT !.pc = "loaded"] @@ [report_data |-> tmp.last_analysis]
                      ELSE [pc |-> "idle",
                            response |-> [request |-> "download", status_code |-> 500,
                                          error |-> "JSONDecodeError"],
                            own |-> @.own, own_at_start |-> @.own_at_start, window |-> @.window]]
    /\ UNCHANGED <<data, received, reports, response, pc, score_a, score_b, class_a, class_b,
                   call, tmp, completed>>

\* report_data...get("company_name") or "Unknown_Company"
CompanyName(report_data) ==
    IF Truthy(Get(report_data, "company_name")) THEN report_data.company_name
    ELSE Str(<<"U", "n", "k", "n", "o", "w", "n">>)

\* the pages that download_report writes for report_data
Pdf(report_data, c) ==
    [state |-> "complete", by |-> c, of |-> report_data,
     company |-> CompanyName(report_data),
     evaluation_score |-> report_data.scores.evaluation_score,
     risk_category |-> report_data.scores.risk_category,
     credit_decision |-> report_data.scores.credit_decision,
     summary |-> report_data.analysis_raw]

\* the PDF is built and written to /tmp/report.pdf; then the file name is made
\* from the characters of company_name, which raises TypeError for a number,
\* and the FileResponse for the path is returned
DownloadRender(c) ==
    /\ clients[c].pc = "loaded"
    /\ tmp' = [tmp EXCEPT !.report_pdf = Pdf(clients[c].report_data, c)]
    /\ clients' = [clients EXCEPT ![c] =
                      IF CompanyName(clients[c].report_data).t = "str"
                      THEN [@ EXCEPT !.pc = "rendered"]
                      ELSE [pc |-> "idle",
                            response |-> [request |-> "download", status_code |-> 500,
                                          error |-> "TypeError"],
                            own |-> @.own, own_at_start |-> @.own_at_start, window |-> @.window]]
    /\ UNCHANGED <<data, received, reports, response, pc, score_a, score_b, class_a, class_b,
                   call, completed>>

\* the FileResponse sends what /tmp/report.pdf holds once the handler has returned
DownloadSend(c) ==
    /\ clients[c].pc = "rendered"
    /\ clients' = [clients EXCEPT ![c] =
                      [pc |-> "idle",
                       response |-> [request |-> "download", status_code |-> 200,
                                     pdf |-> tmp.report_pdf],
                       own |-> @.own, own_at_start |-> @.own_at_start, window |-> @.window]]
    /\ UNCHANGED <<data, received, reports, response, pc, score_a, score_b, class_a, class_b,
                   call, tmp, completed>>

NextReport ==
    \E c \in Clients :
        \/ AnalyzeOpen(c)
        \/ AnalyzeDump(c)
        \/ DownloadCheck(c)
        \/ DownloadLoad(c)
        \/ DownloadRender(c)
        \/ DownloadSend(c)

SpecReport == InitReport /\ [][NextReport]_vars

\* ---------- main.py: the routes and the API key ----------

API_KEY == "BRAVIX-DEMO-SECURE-KEY-2025"

\* the X-API-Key header of a request: none, a wrong one, the right one
ApiKeyHeaders == {<<>>, <<"wrong">>, <<API_KEY>>}

\* verify_api_key lets the request through; x_api_key is None without a header
verify_api_key(x_api_key) == x_api_key = <<API_KEY>>

\* the paths of the routers included with dependencies=[Depends(verify_api_key)]
ProtectedRoutes == {"/api/financial/financial-analysis", "/api/upload", "/api/analyze"}

\* the path of alias_router, included without dependencies
AliasRoute == "/api/financial-analysis"

\* the handler financial_analysis called with request: `await request.json()`
\* raises AttributeError on anything but a Request, and the handler turns every
\* exception other than HTTPException into HTTPException(500)
financial_analysis_handler(request) ==
    IF request.type # "Request"
    THEN [status_code |-> 500, detail |-> "Financial analysis failed"]
    ELSE financial_analysis(request.body).response

\* what alias_financial_analysis makes of the outcome of financial_analysis:
\* an HTTPException is an Exception, and is replaced by HTTPException(500)
AliasOutcome(outcome) ==
    IF outcome.status_code # 200
    THEN [status_code |-> 500, detail |-> "Alias route failed"]
    ELSE outcome

\* alias_financial_analysis passes its payload, a dict, to financial_analysis
alias_financial_analysis(payload) ==
    AliasOutcome(financial_analysis_handler([type |-> "dict", body |-> payload]))

\* the application answers a POST: the response, and the handler that ran.
\* Of the handlers of /api/upload and /api/analyze only the fact that they
\* ran is kept.
Dispatch(route, x_api_key, body) ==
    IF route \in ProtectedRoutes /\ ~verify_api_key(x_api_key)
    THEN [ran |-> "none",
          response |-> [status_code |-> 401, detail |-> "Invalid or missing API Key"]]
    ELSE IF route = "/api/financial/financial-analysis"
    THEN [ran |-> "financial_analysis",
          response |-> financial_analysis_handler([type |-> "Request", body |-> body])]
    ELSE IF route = AliasRoute
    THEN [ran |-> "alias_financial_analysis", response |-> alias_financial_analysis(body)]
    ELSE [ran |-> route, response |-> [status_code |-> 200]]

InitRoutes ==
    /\ data = EmptyMap
    /\ received = EmptyMap
    /\ reports = <<>>
    /\ response = NoResponse
    /\ tmp = EmptyTmp
    /\ clients = NoClients
    /\ completed = NoAnalysis
    /\ pc = "start"
    /\ score_a = None
    /\ score_b = None
    /\ class_a = NoClass
    /\ class_b = NoClass
    /\ call \in {[fn |-> "request", route |-> r, x_api_key |-> k, body |-> d,
                  returned |-> FALSE, result |-> NoResponse] :
                   r \in ProtectedRoutes \cup {AliasRoute}, k \in ApiKeyHeaders, d \in Scenarios}

\* the application serves the request
Serve ==
    /\ call.fn = "request"
    /\ ~call.returned
    /\ call' = [call EXCEPT !.returned = TRUE,
                            !.result = Dispatch(call.route, call.x_api_key, call.body)]
    /\ UNCHANGED <<data, received, reports, response, pc, score_a, score_b, class_a, class_b,
                   tmp, clients, completed>>

NextRoutes == Serve

SpecRoutes == InitRoutes /\ [][NextRoutes]_vars

\* ---------- Properties ----------

\* a result of compute_all that is a report, not the error result
IsReport(r) == "indicators" \in DOMAIN r

\* the entry of the indicator called name in report r
Indicator(r, name) ==
    r.indicators[CHOOSE i \in 1..Len(IndicatorNames) : IndicatorNames[i] = name]

Evaluable(status) == status \in {"good", "caution", "poor"}

\* the report has its parts: 18 indicators, the score, and a class, a risk
\* label, a decision and the ratings
WellFormed(r) ==
    /\ "error" \notin DOMAIN r
    /\ "indicators" \in DOMAIN r
    /\ Len(r.indicators) = 18
    /\ \A i \in 1..Len(r.indicators) :
          DOMAIN r.indicators[i] = {"name", "value", "status"}
    /\ "overall_health_score" \in DOMAIN r
    /\ {"company_class", "ratings"} \subseteq DOMAIN r
    /\ \/ {"risk_category", "credit_decision"} \subseteq DOMAIN r
       \/ {"risk", "decision"} \subseteq DOMAIN r

\* C1: whatever the input map holds (nothing, some fields, garbage values),
\* every result of compute_all is a report with 18 indicators, the score and the
\* classification fields, never the error result.
C1_Totality == \A i \in 1..Len(reports) : WellFormed(reports[i])

\* compute_all has answered an input that holds garbage text
C1_Witness ==
    /\ Len(reports) = 1
    /\ \E k \in Keys : received[k] = Str(<<"a", "b", "c">>)
    /\ WellFormed(reports[1])

\* the input fields of each ratio's formula, as compute_all passes them
Needs(name) ==
    CASE name = "current_ratio" -> {"current_assets", "current_liabilities"}
      [] name = "quick_ratio" -> {"current_assets", "inventory", "current_liabilities"}
      [] name = "cash_ratio" -> {"cash", "current_liabilities"}
      [] name = "debt_to_equity_ratio" -> {"liabilities", "equity"}
      [] name = "debt_ratio" -> {"liabilities", "assets"}
      [] name = "interest_coverage_ratio" -> {"ebit", "interest_expense"}
      [] name = "gross_profit_margin" -> {"gross_profit", "revenue"}
      [] name = "operating_profit_margin" -> {"ebit", "revenue"}
      [] name = "net_profit_margin" -> {"profit", "revenue"}
      [] name = "return_on_assets" -> {"profit", "assets"}
      [] name = "return_on_equity" -> {"profit", "equity"}
      [] name = "return_on_investment" -> {"profit", "investment"}
      [] name = "asset_turnover_ratio" -> {"revenue", "assets"}
      [] name = "inventory_turnover" -> {"cost_of_sales", "inventory"}
      [] name = "accounts_receivable_turnover" -> {"revenue", "receivables"}
      [] name = "earnings_per_share" -> {"profit", "shares_outstanding"}
      [] name = "price_to_earnings_ratio" -> {"share_price", "profit", "shares_outstanding"}
      [] name = "altman_z_score" -> {"assets", "liabilities", "equity", "revenue", "profit"}

\* the fields that each ratio's formula divides by
Denominators(name) ==
    CASE name \in {"current_ratio", "quick_ratio", "cash_ratio"} -> {"current_liabilities"}
      [] name \in {"debt_to_equity_ratio", "return_on_equity"} -> {"equity"}
      [] name \in {"debt_ratio", "return_on_assets", "asset_turnover_ratio"} -> {"assets"}
      [] name = "interest_coverage_ratio" -> {"interest_expense"}
      [] name \in {"gross_profit_margin", "operating_profit_margin", "net_profit_margin"}
            -> {"revenue"}
      [] name = "return_on_investment" -> {"investment"}
      [] name = "inventory_turnover" -> {"inventory"}
      [] name = "accounts_receivable_turnover" -> {"receivables"}
      [] name \in {"earnings_per_share", "price_to_earnings_ratio"} -> {"shares_outstanding"}
      [] name = "altman_z_score" -> {"assets", "liabilities"}

\* C2: a ratio one of whose fields is absent from the input map is reported
\* with value null and the insufficient-data status; the absent field is never
\* taken for the number 0.
C2_AbsentFieldIndeterminate ==
    (Len(reports) = 1 /\ IsReport(reports[1])) =>
        \A i \in 1..Len(IndicatorNames) :
            (\E k \in Needs(IndicatorNames[i]) : received[k] = Absent) =>
                /\ reports[1].indicators[i].value = None
                /\ reports[1].indicators[i].status = "insufficient data"

\* C3: a ratio whose denominator field is zero or absent in the input map is
\* reported with value null, never with a number from a substituted or
\* defaulted denominator.
C3_ZeroDenominatorIndeterminate ==
    (Len(reports) = 1 /\ IsReport(reports[1])) =>
        \A i \in 1..Len(IndicatorNames) :
            (\E k \in Denominators(IndicatorNames[i]) :
                received[k] = Absent \/ safe_num(received[k]).m = 0) =>
                reports[1].indicators[i].value = None

\* C4: two calls of compute_all with the identical input map, the same dict
\* object passed twice included, return identical reports.
C4_SameMapSameReport ==
    \A i \in 1..Len(reports) : reports[i] = reports[1]

\* C5: compute_all leaves the caller's map as it was: no key added, no value
\* rewritten, and data_received of the endpoint echoes the payload as received.
C5_InputUnchanged ==
    /\ data = received
    /\ response.status_code = 200 => response.data_received = received

\* C6: in every report, overall_health_score is null if and only if no
\* indicator has the status good, caution or poor.
C6_NullScoreIffNoneEvaluable ==
    \A i \in 1..Len(reports) :
        IsReport(reports[i]) =>
            ((reports[i].overall_health_score = None)
                <=> ~\E j \in 1..Len(reports[i].indicators) :
                        Evaluable(reports[i].indicators[j].status))

\* a report with a null score for a map that is not empty
C6_Witness ==
    /\ Len(reports) = 1
    /\ received # EmptyMap
    /\ reports[1].overall_health_score = None
    /\ \A j \in 1..Len(reports[1].indicators) :
          ~Evaluable(reports[1].indicators[j].status)

\* C7: a report whose overall_health_score is null carries company_class,
\* risk_category and credit_decision, all "N/A", under the field names of a
\* report whose score is not null.
C7_NullScoreNotApplicable ==
    \A i \in 1..Len(reports) :
        (IsReport(reports[i]) /\ reports[i].overall_health_score = None) =>
            /\ {"company_class", "risk_category", "credit_decision"} \subseteq DOMAIN reports[i]
            /\ reports[i].company_class = "N/A"
            /\ reports[i].risk_category = "N/A"
            /\ reports[i].credit_decision = "N/A"

\* a score in hundredths, for scores of at most two decimals
Hundredths(score) == score.m * Pow10(score.e + 2)

\* the class that the threshold table of the specification gives a score
TableClass(score) ==
    IF Hundredths(score) >= 9000 THEN "A"
    ELSE IF Hundredths(score) >= 7500 THEN "B"
    ELSE IF Hundredths(score) >= 6000 THEN "C"
    ELSE IF Hundredths(score) >= 4000 THEN "D"
    ELSE "E"

\* the row of the table for a class
TableRow(cls) ==
    CASE cls = "A" -> [company_class |-> "A", risk_category |-> "Excellent",
                       credit_decision |-> "Approve",
                       ratings |-> ("Moodys" :> "Aaa-A2") @@ ("S&P" :> "AAA-A")]
      [] cls = "B" -> [company_class |-> "B", risk_category |-> "Good",
                       credit_decision |-> "Proceed",
                       ratings |-> ("Moodys" :> "Baa1-Baa3") @@ ("S&P" :> "BBB+")]
      [] cls = "C" -> [company_class |-> "C", risk_category |-> "Average",
                       credit_decision |-> "Proceed with Caution",
                       ratings |-> ("Moodys" :> "Ba1-Ba3") @@ ("S&P" :> "BB")]
      [] cls = "D" -> [company_class |-> "D", risk_category |-> "Weak",
                       credit_decision |-> "Not Recommended",
                       ratings |-> ("Moodys" :> "B1-B3") @@ ("S&P" :> "B")]
      [] cls = "E" -> [company_class |-> "E", risk_category |-> "Critical",
                       credit_decision |-> "Decline",
                       ratings |-> ("Moodys" :> "Caa-C") @@ ("S&P" :> "CCC-D")]

\* C8: classify_company gives every non-null score the row of the first band,
\* from the top, whose limit the score reaches: 90 A, 75 B, 60 C, 40 D, else E,
\* with the ratings pair of that class.
C8_BandTable ==
    (pc = "classified" /\ score_a # None) => class_a = TableRow(TableClass(score_a))

\* a score on the limit of class B has been classified
C8_Witness ==
    /\ pc = "classified"
    /\ score_a = Num(75)
    /\ class_a.company_class = "B"

Rank(cls) ==
    CASE cls = "A" -> 5 [] cls = "B" -> 4 [] cls = "C" -> 3 [] cls = "D" -> 2 [] cls = "E" -> 1

\* C9: of two non-null scores s1 < s2, the class of s2 is never worse than the
\* class of s1 in the order A > B > C > D > E.
C9_Monotone ==
    (pc = "classified" /\ score_a # None /\ score_b # None
        /\ Hundredths(score_a) < Hundredths(score_b)) =>
        Rank(class_b.company_class) >= Rank(class_a.company_class)

\* two scores in different bands have been classified
C9_Witness ==
    /\ pc = "classified"
    /\ score_a = Canon(5999, 0 - 2)
    /\ score_b = Num(60)
    /\ class_a.company_class = "D"
    /\ class_b.company_class = "C"

\* {assets: 100, liabilities: 60}
AssetsAndLiabilities == Map({<<"assets", Num(100)>>, <<"liabilities", Num(60)>>})

\* C10 as stated: for {assets: 100, liabilities: 60} compute_all derives
\* equity = 40 and reports debt_ratio = 0.6 with status caution.
C10_DebtRatioCaution ==
    (received = AssetsAndLiabilities /\ Len(reports) = 1) =>
        /\ data["equity"] = Num(40)
        /\ Indicator(reports[1], "debt_ratio").value = Canon(6, 0 - 1)
        /\ Indicator(reports[1], "debt_ratio").status = "caution"

\* C10 as amended: for {assets: 100, liabilities: 60} compute_all derives
\* equity = 40 and reports debt_ratio = 0.6 with status good, 0.6 being the
\* inclusive limit of good for debt_ratio.
C10_DebtRatioGood ==
    (received = AssetsAndLiabilities /\ Len(reports) = 1) =>
        /\ data["equity"] = Num(40)
        /\ Indicator(reports[1], "debt_ratio").value = Canon(6, 0 - 1)
        /\ Indicator(reports[1], "debt_ratio").status = "good"

\* compute_all has answered {assets: 100, liabilities: 60}
C10_Witness ==
    /\ received = AssetsAndLiabilities
    /\ Len(reports) = 1
    /\ Indicator(reports[1], "debt_ratio").value = Canon(6, 0 - 1)

\* C11: for an input map with liabilities = 500 and equity = 0, whatever else
\* it holds, debt_to_equity_ratio is reported as null: never a number.
C11_ZeroEquityIndeterminate ==
    (Len(reports) = 1 /\ IsReport(reports[1])
        /\ received["liabilities"] = Num(500) /\ received["equity"] = Num(0)) =>
        Indicator(reports[1], "debt_to_equity_ratio").value = None

\* C12: for the empty input map compute_all returns a null score, company_class
\* "N/A", and every one of the 18 indicators with value null and the
\* insufficient-data status.
C12_EmptyMapReport ==
    (received = EmptyMap /\ Len(reports) >= 1) =>
        \A i \in 1..Len(reports) :
            /\ IsReport(reports[i])
            /\ reports[i].overall_health_score = None
            /\ reports[i].company_class = "N/A"
            /\ Len(reports[i].indicators) = 18
            /\ \A j \in 1..Len(reports[i].indicators) :
                  /\ reports[i].indicators[j].value = None
                  /\ reports[i].indicators[j].status = "insufficient data"

\* compute_all has answered the empty map
C12_Witness ==
    /\ received = EmptyMap
    /\ Len(reports) = 1
    /\ pc = "called"
    /\ reports[1].overall_health_score = None

LowerIsBetter == {"debt_to_equity_ratio", "debt_ratio", "price_to_earnings_ratio"}

\* the status that the rule of the specification gives value v of indicator n,
\* on integer hundredths
RuleStatus(n, v) ==
    LET x == Hundredths(v)
        g == Hundredths(thresholds(n)[1])
        c == Hundredths(thresholds(n)[2])
    IN IF n \in LowerIsBetter
       THEN (IF x <= g THEN "good" ELSE IF x <= c THEN "caution" ELSE "poor")
       ELSE (IF x >= g THEN "good" ELSE IF x >= c THEN "caution" ELSE "poor")

\* C13: on a higher-is-better indicator evaluate_status answers good iff the
\* value is at least the good threshold, caution iff it is at least the caution
\* threshold and below the good one, poor otherwise; on debt_to_equity_ratio,
\* debt_ratio and price_to_earnings_ratio the inequalities are mirrored; a value
\* equal to the good threshold is good: current_ratio 2.0 from
\* {current_assets: 200, current_liabilities: 100} and net_profit_margin 10.0
\* from {revenue: 1000, profit: 100}.
C13_StatusRule ==
    /\ (call.returned /\ call.value # None /\ thresholds(call.indicator)[1] # None) =>
           call.result = RuleStatus(call.indicator, call.value)
    /\ (Len(reports) >= 1 /\ received = LiquidityOnly) =>
           /\ Indicator(reports[1], "current_ratio").value = Num(2)
           /\ Indicator(reports[1], "current_ratio").status = "good"
    /\ (Len(reports) >= 1 /\ received = ProfitOnly) =>
           /\ Indicator(reports[1], "net_profit_margin").value = Num(10)
           /\ Indicator(reports[1], "net_profit_margin").status = "good"

\* price_to_earnings_ratio on its good threshold was evaluated, and compute_all
\* has answered {revenue: 1000, profit: 100}
C13_Witness ==
    /\ call.returned
    /\ call.indicator = "price_to_earnings_ratio"
    /\ call.value = Num(20)
    /\ call.result = "good"
    /\ received = ProfitOnly
    /\ Len(reports) = 1

\* C15: safe_div(x, 0) is null for every x, and safe_div(0, y) with y # 0 is
\* the number 0.0, which is not null.
C15_DivisionNullSafe ==
    call.returned =>
        /\ (call.b = Num(0)) => call.result = None
        /\ (call.a = Num(0) /\ IsNum(call.b) /\ call.b # Num(0)) =>
               (call.result = Num(0) /\ call.result # None)

\* a division of zero by a non-zero number has returned
C15_Witness ==
    /\ call.returned
    /\ call.a = Num(0)
    /\ call.b = Num(0 - 5)
    /\ call.result = Num(0)

\* C16: evaluate_status answers the insufficient-data status for a null value
\* under every indicator name, names without a threshold entry included; for
\* a number under a name without a threshold entry it answers unknown.
C16_NullBeforeLookup ==
    call.returned =>
        /\ (call.value = None) => call.result = "insufficient data"
        /\ (IsNum(call.value) /\ call.indicator \notin {IndicatorNames[i] : i \in 1..18}) =>
               call.result = "unknown"

\* a null value under a name without a threshold entry was evaluated
C16_Witness ==
    /\ call.returned
    /\ call.indicator = "equity_ratio"
    /\ call.value = None
    /\ call.result = "insufficient data"

\* the number of indicators of report r with the status st
CountStatus(r, st) == Cardinality({j \in 1..Len(r.indicators) : r.indicators[j].status = st})

\* 100 times the sum of the weights 1.0, 0.6, 0.2 of the evaluable indicators
WeightSum(r) ==
    100 * CountStatus(r, "good") + 60 * CountStatus(r, "caution") + 20 * CountStatus(r, "poor")

EvaluableCount(r) ==
    CountStatus(r, "good") + CountStatus(r, "caution") + CountStatus(r, "poor")

\* C14: overall_health_score is 100 times the mean of the weights good 1.0,
\* caution 0.6, poor 0.2 over the indicators with one of these statuses,
\* rounded to 2 decimals (the nearest hundredth); the other indicators count
\* in neither the sum nor the number.
C14_FlatScore ==
    \A i \in 1..Len(reports) :
        (IsReport(reports[i]) /\ EvaluableCount(reports[i]) > 0) =>
            /\ IsNum(reports[i].overall_health_score)
            /\ reports[i].overall_health_score.e >= 0 - 2
            /\ 2 * Abs(Hundredths(reports[i].overall_health_score) * EvaluableCount(reports[i])
                        - 100 * WeightSum(reports[i]))
                  <= EvaluableCount(reports[i])

\* a report that mixes good, caution, poor and unscored indicators
C14_Witness ==
    /\ Len(reports) = 1
    /\ CountStatus(reports[1], "good") > 0
    /\ CountStatus(reports[1], "caution") > 0
    /\ CountStatus(reports[1], "poor") > 0
    /\ EvaluableCount(reports[1]) < 18
    /\ IsNum(reports[1].overall_health_score)

\* the input map without its keys outside the vocabulary
WithoutExtraKeys(d) == [k \in Keys |-> IF k \in ExtraKeys THEN Absent ELSE d[k]]

\* C17: a key outside the FinancialFacts vocabulary changes nothing in the
\* report: the report for a map is the report for the map without such keys.
C17_ExtraKeysIgnored ==
    (Len(reports) = 1 /\ pc = "called") =>
        reports[1] = compute_all(WithoutExtraKeys(received)).result

\* C18: cash_ratio is (cash + short_term_investments) / current_liabilities
\* for every input whose current_liabilities is a non-zero number.
C18_CashRatioFormula ==
    (Len(reports) = 1 /\ IsReport(reports[1])
        /\ IsNum(received["current_liabilities"]) /\ received["current_liabilities"] # Num(0)) =>
        Indicator(reports[1], "cash_ratio").value =
            DivRound(Add(safe_num(received["cash"]), safe_num(received["short_term_investments"])),
                     normalize_scale(received["current_liabilities"]), 4)

\* C20: the endpoint answers every JSON object, the empty one included, with a
\* scoring report; for the empty object the report has a null score and the
\* class "N/A".
C20_EveryMapAnswered ==
    (pc = "responded") =>
        /\ response.status_code = 200
        /\ IsReport(response.results)
        /\ (received = EmptyMap) =>
               /\ response.results.overall_health_score = None
               /\ response.results.company_class = "N/A"

\* C19: the evaluation_score of the weighted scoring on the /analyze path lies
\* within 0 to 100 for every set of indicator values that
\* compute_18_indicators can produce.
C19_EvaluationScoreInRange ==
    (call.returned /\ "scores" \in DOMAIN call.result) =>
        /\ Hundredths(call.result.scores.evaluation_score) >= 0
        /\ Hundredths(call.result.scores.evaluation_score) <= 10000

\* C30: a non-null overall_health_score lies between 20 and 100 inclusive,
\* so the score 0 is never produced, and a report of class E has a score of
\* at least 20 and below 40.
C30_ScoreAtLeastTwenty ==
    \A i \in 1..Len(reports) :
        (IsReport(reports[i]) /\ reports[i].overall_health_score # None) =>
            /\ Hundredths(reports[i].overall_health_score) >= 2000
            /\ Hundredths(reports[i].overall_health_score) <= 10000
            /\ (reports[i].company_class = "E") =>
                   Hundredths(reports[i].overall_health_score) < 4000

\* a report of class E whose score is exactly 20: every scored indicator is poor
C30_Witness ==
    /\ Len(reports) = 1
    /\ IsReport(reports[1])
    /\ reports[1].company_class = "E"
    /\ reports[1].overall_health_score = Num(20)
    /\ CountStatus(reports[1], "poor") = EvaluableCount(reports[1])

\* the fields that compute_all may fill
Derivable == {"liabilities", "equity", "current_assets", "current_liabilities"}

\* the caller supplied a non-zero value under key k
SuppliedNonZero(k) == received[k] # Absent /\ Truthy(normalize_scale(received[k]))

\* C29: compute_all fills only an absent or zero field: a supplied non-zero
\* liabilities, equity, current_assets or current_liabilities stays the
\* supplied value (rescaled), so the total liabilities are not counted twice;
\* a value the code put under liabilities is the sum of its two parts, and a
\* value it put under equity is never negative.
C29_OnlyFillsMissing ==
    (pc \in {"called", "called_again"}) =>
        /\ \A k \in Derivable :
              SuppliedNonZero(k) => data[k] = normalize_scale(received[k])
        /\ (~SuppliedNonZero("liabilities") /\ Truthy(Get(data, "liabilities"))) =>
               data["liabilities"] = Add(normalize_scale(received["current_liabilities"]),
                                         normalize_scale(received["non_current_liabilities"]))
        /\ (~SuppliedNonZero("equity") /\ Get(data, "equity") # None) =>
               Ge(data["equity"], Num(0))

\* every derivable field was supplied, next to the two parts of liabilities,
\* current_liabilities with a value other than 0.45 * liabilities, and all
\* are kept
C29_Witness ==
    /\ pc = "called"
    /\ \A k \in Derivable : SuppliedNonZero(k) /\ data[k] = received[k]
    /\ SuppliedNonZero("non_current_liabilities")
    /\ data["liabilities"] # Add(data["current_liabilities"], data["non_current_liabilities"])
    /\ data["current_liabilities"] # Mul(data["liabilities"], Canon(45, 0 - 2))

\* the indicators that are a quotient of two monetary fields
QuotientRatios ==
    { "debt_ratio", "debt_to_equity_ratio", "current_ratio", "asset_turnover_ratio",
      "gross_profit_margin", "operating_profit_margin", "net_profit_margin" }

\* C28: the report for a company whose monetary fields are all multiplied by
\* the same positive factor has, for every quotient of two monetary fields,
\* the value and the status of the report for the company in units.
C28_ScaleInvariant ==
    (call.fn = "scale" /\ pc = "called") =>
        \A n \in QuotientRatios :
            Indicator(reports[1], n) = Indicator(compute_all(call.base).result, n)

\* C27: classify_company and the two compute_weighted_score functions give
\* every score from 0 to 100 the same risk label, and a score from 75 up to,
\* not including, 90 the label Good.
C27_SameRiskLabel ==
    (call.fn = "tables" /\ call.returned) =>
        /\ call.analyze[2] = class_a.risk_category
        /\ call.chatgpt[1] = class_a.risk_category
        /\ (Ge(score_a, Num(75)) /\ Lt(score_a, Num(90))) => call.chatgpt[1] = "Good"

\* C26: analyze_with_chatgpt calls gpt-5 first and gpt-4o only after gpt-5
\* raised or gave an empty text; it makes at most two calls; the first
\* non-empty completion is the last call and is returned; after two failures
\* it returns 'No analysis generated.' with the scores and the graded
\* indicators that a success carries.
C26_ModelFallback ==
    (call.fn = "analyze_with_chatgpt") =>
        /\ Len(call.tried) <= 2
        /\ (Len(call.tried) >= 1) => call.tried[1][1] = "gpt-5"
        /\ (Len(call.tried) = 2) =>
               call.tried[1][2] \in {"raise", "empty"} /\ call.tried[2][1] = "gpt-4o"
        /\ \A i \in 1..Len(call.tried) :
               (call.tried[i][2] = "text") =>
                   /\ i = Len(call.tried)
                   /\ call.returned
                   /\ call.result.analysis_raw = "text"
        /\ (Len(call.tried) = 2 /\ call.tried[2][2] # "text") =>
               /\ call.returned
               /\ call.result.analysis_raw = "No analysis generated."
               /\ call.result.scores = ChatSuccess(call.indicators).scores
               /\ call.result.graded_indicators = ChatSuccess(call.indicators).graded_indicators

\* gpt-5 raised, gpt-4o answered with an empty text, and the call returned
C26_Witness ==
    /\ call.fn = "analyze_with_chatgpt"
    /\ call.returned
    /\ call.tried = <<(<<"gpt-5", "raise">>), (<<"gpt-4o", "empty">>)>>
    /\ call.result.analysis_raw = "No analysis generated."
    /\ call.result.scores.evaluation_score = Canon(692, 0 - 1)

\* the scores and the classification computed from the indicators of the call
Computable(c) ==
    IF c.fn = "analyze_with_chatgpt"
    THEN TRUE
    ELSE "error" \notin DOMAIN compute_18_indicators(normalize_indicators(c.indicators))

\* C21: whatever happens to the LLM (no API key, an exception from every
\* model call), a narrative path that has returned carries the scores and the
\* classification that its indicators allow.
C21_ScoresDespiteLLMFailure ==
    (call.fn \in {"analyze", "analyze_with_chatgpt"} /\ call.returned /\ Computable(call)) =>
        /\ "scores" \in DOMAIN call.result
        /\ "risk_category" \in DOMAIN call.result.scores

\* client c has the answer to a download
Downloaded(c) == clients[c].pc = "idle" /\ clients[c].response.request = "download"

\* C22: the requests of two clients never interfere: no download fails on a
\* partially written last_analysis.json, the PDF that a download sends is the
\* one that this request wrote, and a download that a client issues after its
\* own analysis has completed renders that analysis.
C22_NoInterference ==
    \A c \in Clients :
        Downloaded(c) =>
            /\ ~(clients[c].response.status_code = 500
                    /\ clients[c].response.error = "JSONDecodeError")
            /\ (clients[c].response.status_code = 200) =>
                   /\ clients[c].response.pdf.by = c
                   /\ (clients[c].own_at_start # NoAnalysis) =>
                          clients[c].response.pdf.of = clients[c].own_at_start

\* the answer to a download agrees with the analyses that were the most
\* recently completed one at some moment of the download: 404 when there was
\* none, else the pages for one of them
C25_DownloadsLatest ==
    \A c \in Clients :
        Downloaded(c) =>
            \/ /\ clients[c].response.status_code = 404
               /\ NoAnalysis \in clients[c].window
            \/ /\ clients[c].response.status_code = 200
               /\ clients[c].response.pdf.of \in clients[c].window \ {NoAnalysis}

\* an /analyze call that answers 'Insufficient data' or 500 leaves
\* last_analysis.json as it is
C25_FailureKeepsStore ==
    \A c \in Clients :
        (/\ clients'[c].response # clients[c].response
         /\ clients'[c].response.request = "analyze"
         /\ "status" \notin DOMAIN clients'[c].response)
            => tmp'.last_analysis = tmp.last_analysis

\* C25: download_report answers 404 exactly when no analysis has been stored;
\* once an /analyze call has succeeded a later download renders the most
\* recently completed successful analysis; an /analyze call that ends in
\* 'Insufficient data' or in an error leaves the stored analysis unchanged.
C25_ReportStore == []C25_DownloadsLatest /\ [][C25_FailureKeepsStore]_vars

\* C23: a request whose handler ran carried the right X-API-Key, and a request
\* without it or with a wrong one is answered 401 without any handler running.
C23_KeyBeforeHandler ==
    (call.fn = "request" /\ call.returned) =>
        /\ (call.result.ran # "none") => call.x_api_key = <<API_KEY>>
        /\ (call.x_api_key # <<API_KEY>>) =>
               call.result.ran = "none" /\ call.result.response.status_code = 401

\* C24: the alias POST /api/financial-analysis answers a payload as
\* POST /api/financial/financial-analysis answers it: the same success body or
\* the same error status.
C24_AliasSameOutcome ==
    (call.fn = "request" /\ call.returned /\ call.route = AliasRoute
        /\ call.x_api_key = <<API_KEY>>) =>
        call.result.response =
            Dispatch("/api/financial/financial-analysis", call.x_api_key, call.body).response

====
